---- MODULE Spec2Model ----
(***************************************************************************)
(* Model of phoenix-presence-immutable: the reconciliation of a client     *)
(* held presence State (an Immutable.Map) against snapshots and            *)
(* join/leave diffs pushed by the server.                                  *)
(*                                                                         *)
(* Values.  Every JavaScript value is a record tagged by t:                *)
(*   "str"   a string                    [t, v]                            *)
(*   "undef" undefined                   [t]                               *)
(*   "obj"   a plain object              [t, e]   e: field -> value        *)
(*   "arr"   a plain array               [t, e]   e: sequence of values    *)
(*   "Map"   an Immutable.Map            [t, oid, e]                       *)
(*   "List"  an Immutable.List           [t, e]                            *)
(*   "throw" the call raised (TypeError) [t]                               *)
(* oid is the identity of an Immutable.Map object: two Maps are the same   *)
(* object (Object.is) iff their oids are equal.  An oid names the place    *)
(* that holds or allocated the object: its path inside the State passed    *)
(* to the call, its path inside the payload for Immutable.fromJS, the      *)
(* source line and the presence key for a set/delete of the library.       *)
(***************************************************************************)
EXTENDS Integers, Sequences, FiniteSets, TLC

Str(s) == [t |-> "str", v |-> s]
Undefined == [t |-> "undef"]
Throw == [t |-> "throw"]
Obj(f) == [t |-> "obj", e |-> f]
Arr(s) == [t |-> "arr", e |-> s]
IList(s) == [t |-> "List", e |-> s]
Oid(p) == [p |-> p]
IMap(o, f) == [t |-> "Map", oid |-> o, e |-> f]

NoFields == [k \in {} |-> Undefined]

IsMap(v) == v.t = "Map"
IsList(v) == v.t = "List"
IsColl(v) == v.t \in {"Map", "List"}
IsThrow(v) == v.t = "throw"

\* Immutable.Map#has / Immutable.List#has with a string key that is no index
Has(m, k) == IsMap(m) /\ k \in DOMAIN m.e

\* Immutable.Map#get
Get(m, k) == IF Has(m, k) THEN m.e[k] ELSE Undefined

\* field of a plain object (undefined when missing)
Field(o, k) == IF o.t = "obj" /\ k \in DOMAIN o.e THEN o.e[k] ELSE Undefined

Upd(f, k, v) == [x \in DOMAIN f \cup {k} |-> IF x = k THEN v ELSE f[x]]
Del(f, k) == [x \in DOMAIN f \ {k} |-> f[x]]

\* a set that rebuilds the Map: the other entries are copies, not the
\* objects that were there
MapSetRebuilt(m, k, v, o) ==
  IMap(o, [x \in DOMAIN m.e \cup {k} |->
             IF x = k THEN v
             ELSE IF IsMap(m.e[x]) THEN IMap(Oid(<<"copy", x>>), m.e[x].e) ELSE m.e[x]])

\* Immutable.Map#set: the same object when the value is already there (===),
\* a new Map (identity o) otherwise.  A List value is never === the old one:
\* filterNot and concat allocate.
MapSet(m, k, v, o) ==
  IF Has(m, k) /\ m.e[k] = v /\ ~IsList(v) THEN m ELSE IMap(o, Upd(m.e, k, v))

\* Immutable.Map#delete: the same object when the key is absent
MapDelete(m, k, o) == IF Has(m, k) THEN IMap(o, Del(m.e, k)) ELSE m

\* Immutable.fromJS: plain objects and arrays become Maps and Lists, deeply;
\* anything else (Immutable collections included) is returned as it is.
RECURSIVE fromJS(_, _)
fromJS(v, path) ==
  CASE v.t = "obj" ->
         IMap(Oid(path), [k \in DOMAIN v.e |-> fromJS(v.e[k], Append(path, k))])
    [] v.t = "arr" ->
         IList([i \in DOMAIN v.e |-> fromJS(v.e[i], Append(path, ToString(i)))])
    [] OTHER -> v

isImmutable(v) == IsColl(v)
coerceImmutable(v, path) == IF isImmutable(v) THEN v ELSE fromJS(v, path)

\* The value of an Immutable collection, identities dropped (what
\* Immutable.is and equals compare).
RECURSIVE Val(_)
Val(v) ==
  CASE v.t = "Map" -> [t |-> "Map", e |-> [k \in DOMAIN v.e |-> Val(v.e[k])]]
    [] v.t = "List" -> [t |-> "List", e |-> [i \in DOMAIN v.e |-> Val(v.e[i])]]
    [] OTHER -> v

Is(a, b) == Val(a) = Val(b)

emptyMap == IMap(Oid(<<"emptyMap">>), NoFields)
emptyState == emptyMap

(***************************************************************************)
(* Iteration.  The order in which a Map or Set hands out its keys is the   *)
(* library's business; ord is a sequence holding every key once, and a     *)
(* collection iterates its keys in the order ord lists them.               *)
(***************************************************************************)
KeysIn(S, ord) == SelectSeq(ord, LAMBDA k : k \in S)

\* truthiness of a JavaScript value
Truthy(v) == ~(v.t = "undef" \/ (v.t = "str" /\ v.v = ""))

\* list.map(m => m.get('phx_ref')): the refs of a List of metas, as a set
\* (only membership is asked of it)
Refs(metas) == {Get(metas.e[i], "phx_ref") : i \in DOMAIN metas.e}

\* what x.get('metas').map(m => m.get('phx_ref')) needs in order not to raise
MetasOk(p) == IsList(Get(p, "metas")) /\ \A i \in DOMAIN Get(p, "metas").e : IsColl(Get(p, "metas").e[i])

\* filter in place of filterNot: the metas with a listed ref are the ones kept
FilterRefs(metas, refs) ==
  IList(SelectSeq(metas.e, LAMBDA m : Get(m, "phx_ref") \in refs))

\* list.filterNot(m => refs.includes(m.get('phx_ref'))): order kept, elements
\* are the same objects
FilterNotRefs(metas, refs) ==
  IList(SelectSeq(metas.e, LAMBDA m : Get(m, "phx_ref") \notin refs))

\* the concat the other way round: the joined metas first
ConcatInFront(metas, x) == IList(IF IsList(x) THEN x.e \o metas.e ELSE <<x>> \o metas.e)

\* list.concat(x): the elements of a List x are appended, any other x is
\* appended as one element
Concat(metas, x) == IList(IF IsList(x) THEN metas.e \o x.e ELSE Append(metas.e, x))

\* extractMetas without the filter: every meta of newPresence is returned
extractMetasUnfiltered(comparedPresence, newPresence, o) ==
  IF ~MetasOk(comparedPresence) \/ ~IsList(Get(newPresence, "metas")) \/ ~MetasOk(newPresence)
  THEN Throw
  ELSE MapSet(emptyMap, "metas", Get(newPresence, "metas"), o)

\* const extractMetas = (comparedPresence, newPresence) => ...
extractMetas(comparedPresence, newPresence, o) ==
  IF ~MetasOk(comparedPresence) \/ ~IsList(Get(newPresence, "metas")) \/ ~MetasOk(newPresence)
  THEN Throw
  ELSE MapSet(emptyMap, "metas",
              FilterNotRefs(Get(newPresence, "metas"), Refs(Get(comparedPresence, "metas"))), o)

\* a join step that merges into present keys only: a key the state lacks is
\* not set
joinStepPresentOnly(state, newPresence, key) ==
  LET currentPresence == Get(state, key)
  IN IF IsThrow(state) THEN Throw
     ELSE IF Truthy(currentPresence)
     THEN IF ~IsList(Get(currentPresence, "metas")) THEN Throw
          ELSE MapSet(state, key,
                 MapSet(newPresence, "metas",
                        Concat(Get(currentPresence, "metas"), Get(newPresence, "metas")),
                        Oid(<<"L53", key>>)),
                 Oid(<<"L55", key>>))
     ELSE state

\* a join step that puts the joined metas in front of the ones the key has
joinStepJoinedFirst(state, newPresence, key) ==
  LET currentPresence == Get(state, key)
  IN IF IsThrow(state) THEN Throw
     ELSE IF Truthy(currentPresence)
     THEN IF ~IsList(Get(currentPresence, "metas")) THEN Throw
          ELSE MapSet(state, key,
                 MapSet(newPresence, "metas",
                        Concat(Get(newPresence, "metas"), Get(currentPresence, "metas")),
                        Oid(<<"L53", key>>)),
                 Oid(<<"L55", key>>))
     ELSE MapSet(state, key, newPresence, Oid(<<"L55", key>>))

\* one step of the reduce over joins (part_001 lines 50-56)
joinStep(state, newPresence, key) ==
  LET currentPresence == Get(state, key)
  IN IF IsThrow(state) THEN Throw
     ELSE IF Truthy(currentPresence)
     THEN IF ~IsList(Get(currentPresence, "metas")) THEN Throw
          ELSE MapSet(state, key,
                 MapSet(newPresence, "metas",
                        Concat(Get(currentPresence, "metas"), Get(newPresence, "metas")),
                        Oid(<<"L53", key>>)),
                 Oid(<<"L55", key>>))
     ELSE MapSet(state, key, newPresence, Oid(<<"L55", key>>))

\* a leave step that never deletes: a key whose metas run empty is set to
\* the record with no metas
leaveStepNoDelete(state, leftPresence, key) ==
  LET currentPresence == Get(state, key)
  IN IF IsThrow(state) THEN Throw
     ELSE IF ~Truthy(currentPresence) THEN state
     ELSE IF ~MetasOk(leftPresence) \/ ~MetasOk(currentPresence) THEN Throw
     ELSE LET refsToRemove == Refs(Get(leftPresence, "metas"))
              currentMetas == FilterNotRefs(Get(currentPresence, "metas"), refsToRemove)
              currentNewPresence ==
                MapSet(currentPresence, "metas", currentMetas, Oid(<<"L65", key>>))
          IN MapSet(state, key, currentNewPresence, Oid(<<"L66", key>>))

\* one step of the reduce over leaves (part_001 lines 58-67)
leaveStep(state, leftPresence, key) ==
  LET currentPresence == Get(state, key)
  IN IF IsThrow(state) THEN Throw
     ELSE IF ~Truthy(currentPresence) THEN state
     ELSE IF ~MetasOk(leftPresence) \/ ~MetasOk(currentPresence) THEN Throw
     ELSE LET refsToRemove == Refs(Get(leftPresence, "metas"))
              currentMetas == FilterNotRefs(Get(currentPresence, "metas"), refsToRemove)
              currentNewPresence ==
                MapSet(currentPresence, "metas", currentMetas, Oid(<<"L65", key>>))
          IN IF Len(currentMetas.e) # 0
             THEN MapSet(state, key, currentNewPresence, Oid(<<"L66", key>>))
             ELSE MapDelete(state, key, Oid(<<"L66", key>>))

\* a reduce over joins that stops when the first key is done
reduceJoinsFirstOnly(state, joins, ks) ==
  IF ks = <<>> THEN state
  ELSE joinStep(state, joins.e[Head(ks)], Head(ks))

RECURSIVE reduceJoins(_, _, _)
reduceJoins(state, joins, ks) ==
  IF ks = <<>> THEN state
  ELSE reduceJoins(joinStep(state, joins.e[Head(ks)], Head(ks)), joins, Tail(ks))

RECURSIVE reduceLeaves(_, _, _)
reduceLeaves(state, leaves, ks) ==
  IF ks = <<>> THEN state
  ELSE reduceLeaves(leaveStep(state, leaves.e[Head(ks)], Head(ks)), leaves, Tail(ks))

(***************************************************************************)
(* The onChanged callback.  cb names what the caller passed:               *)
(*   "none"   no callback                                                  *)
(*   "void"   a callback that returns nothing                              *)
(*   "extra"  returns newPresence.set('extraData', key) when there is a    *)
(*            newPresence (test: allows onChanged to mutate presence data) *)
(*   "bad"    returns newPresence.set('metas', 2) when there is a          *)
(*            newPresence (test: disallows onChanged to mutate ... metas)  *)
(*   "old"    returns oldPresence when there is one, and a record of its   *)
(*            own otherwise: a value is returned for every key             *)
(*   "raise"  a callback that throws                                       *)
(***************************************************************************)
onChanged(cb, key, newPresence, oldPresence) ==
  CASE cb = "raise" -> Throw
    [] cb = "old" ->
         IF Truthy(oldPresence) THEN oldPresence
         ELSE fromJS(Obj([metas |-> Arr(<<Obj([phx_ref |-> Str("r1"), id |-> Str("a")])>>)]),
                     <<"cb", key>>)
    [] cb = "extra" /\ Truthy(newPresence) ->
         MapSet(newPresence, "extraData", Str(key), Oid(<<"cb", key>>))
    [] cb = "bad" /\ Truthy(newPresence) ->
         MapSet(newPresence, "metas", Str("2"), Oid(<<"cb", key>>))
    [] OTHER -> Undefined

\* a step that catches what the callback throws and goes on with the state
\* it has
changedStepSwallow(acc, key, originalState, cb) ==
  LET state == acc.state
      currentPresence == Get(state, key)
      newPresence == onChanged(cb, key, currentPresence, Get(originalState, key))
      call == [key |-> key, new |-> currentPresence, old |-> Get(originalState, key)]
  IN IF IsThrow(state) THEN acc
     ELSE [state |-> IF IsThrow(newPresence) THEN state
                     ELSE IF Truthy(newPresence) /\ Truthy(currentPresence)
                             /\ Is(Get(newPresence, "metas"), Get(currentPresence, "metas"))
                     THEN MapSet(state, key, newPresence, Oid(<<"L77", key>>))
                     ELSE state,
           log |-> Append(acc.log, call)]

\* a step that never takes what the callback returns
changedStepDiscard(acc, key, originalState, cb) ==
  LET state == acc.state
      currentPresence == Get(state, key)
      newPresence == onChanged(cb, key, currentPresence, Get(originalState, key))
      call == [key |-> key, new |-> currentPresence, old |-> Get(originalState, key)]
  IN IF IsThrow(state) THEN acc
     ELSE [state |-> IF IsThrow(newPresence) THEN Throw ELSE state,
           log |-> Append(acc.log, call)]

\* a step that takes whatever the callback returns, without the look at the
\* current record and at the metas
changedStepAlways(acc, key, originalState, cb) ==
  LET state == acc.state
      currentPresence == Get(state, key)
      newPresence == onChanged(cb, key, currentPresence, Get(originalState, key))
      call == [key |-> key, new |-> currentPresence, old |-> Get(originalState, key)]
  IN IF IsThrow(state) THEN acc
     ELSE [state |-> IF IsThrow(newPresence) THEN Throw
                     ELSE IF Truthy(newPresence)
                     THEN MapSet(state, key, newPresence, Oid(<<"L77", key>>))
                     ELSE state,
           log |-> Append(acc.log, call)]

\* a step that takes what the callback returns for a key that has a record,
\* without the comparison of the metas
changedStepNoMetasTest(acc, key, originalState, cb) ==
  LET state == acc.state
      currentPresence == Get(state, key)
      newPresence == onChanged(cb, key, currentPresence, Get(originalState, key))
      call == [key |-> key, new |-> currentPresence, old |-> Get(originalState, key)]
  IN IF IsThrow(state) THEN acc
     ELSE [state |-> IF IsThrow(newPresence) THEN Throw
                     ELSE IF Truthy(newPresence) /\ Truthy(currentPresence)
                     THEN MapSet(state, key, newPresence, Oid(<<"L77", key>>))
                     ELSE state,
           log |-> Append(acc.log, call)]

\* one step of the reduce over changedKeys (part_001 lines 73-80); acc is
\* the state so far and the calls of onChanged so far.  A callback that
\* throws ends the reduce: the state so far is lost.
changedStep(acc, key, originalState, cb) ==
  LET state == acc.state
      currentPresence == Get(state, key)
      newPresence == onChanged(cb, key, currentPresence, Get(originalState, key))
      call == [key |-> key, new |-> currentPresence, old |-> Get(originalState, key)]
  IN IF IsThrow(state) THEN acc
     ELSE [state |-> IF IsThrow(newPresence) THEN Throw
                     ELSE IF Truthy(newPresence) /\ Truthy(currentPresence)
                             /\ Is(Get(newPresence, "metas"), Get(currentPresence, "metas"))
                     THEN MapSet(state, key, newPresence, Oid(<<"L77", key>>))
                     ELSE state,
           log |-> Append(acc.log, call)]

RECURSIVE reduceChanged(_, _, _, _)
reduceChanged(acc, ks, originalState, cb) ==
  IF ks = <<>> THEN acc
  ELSE reduceChanged(changedStep(acc, Head(ks), originalState, cb),
                     Tail(ks), originalState, cb)

\* const stateAfterJoins = immutableJoins.reduce(..., originalState)
stateAfterJoins(originalState, immutableJoins, ord) ==
  reduceJoins(originalState, immutableJoins, KeysIn(DOMAIN immutableJoins.e, ord))

\* const stateAfterLeaves = immutableLeaves.reduce(..., stateAfterJoins)
stateAfterLeaves(afterJoins, immutableLeaves, ord) ==
  reduceLeaves(afterJoins, immutableLeaves, KeysIn(DOMAIN immutableLeaves.e, ord))

\* the keys of joins followed by the keys of leaves, without the toSet
changedKeysNoSet(immutableJoins, immutableLeaves, ord) ==
  KeysIn(DOMAIN immutableJoins.e, ord) \o KeysIn(DOMAIN immutableLeaves.e, ord)

\* immutableJoins.keySeq().concat(immutableLeaves.keySeq()).toSet(), as the
\* sequence in which the reduce visits it
changedKeys(immutableJoins, immutableLeaves, ord) ==
  KeysIn(DOMAIN immutableJoins.e \cup DOMAIN immutableLeaves.e, ord)

\* syncDiff that calls onChanged when the joins are applied and the leaves
\* are not yet
syncDiffNotifyAfterJoins(originalState, joins, leaves, cb, ord) ==
  LET immutableJoins == coerceImmutable(joins, <<"joins">>)
      immutableLeaves == coerceImmutable(leaves, <<"leaves">>)
      afterJoins == stateAfterJoins(originalState, immutableJoins, ord)
      after == reduceChanged([state |-> afterJoins, log |-> <<>>],
                             changedKeys(immutableJoins, immutableLeaves, ord),
                             originalState, cb)
  IN IF cb = "none"
     THEN [ret |-> stateAfterLeaves(afterJoins, immutableLeaves, ord), log |-> <<>>]
     ELSE [ret |-> stateAfterLeaves(after.state, immutableLeaves, ord),
           log |-> IF IsThrow(afterJoins) THEN <<>> ELSE after.log]

\* syncDiff that applies the leaves to originalState and the joins to what
\* the leaves left
syncDiffLeavesFirst(originalState, joins, leaves, cb, ord) ==
  LET immutableJoins == coerceImmutable(joins, <<"joins">>)
      immutableLeaves == coerceImmutable(leaves, <<"leaves">>)
      afterLeaves == stateAfterLeaves(originalState, immutableLeaves, ord)
      afterJoins == stateAfterJoins(afterLeaves, immutableJoins, ord)
      after == reduceChanged([state |-> afterJoins, log |-> <<>>],
                             changedKeys(immutableJoins, immutableLeaves, ord),
                             originalState, cb)
  IN IF IsThrow(afterJoins) THEN [ret |-> Throw, log |-> <<>>]
     ELSE IF cb = "none" THEN [ret |-> afterJoins, log |-> <<>>]
     ELSE [ret |-> after.state, log |-> after.log]

\* syncDiff that starts the join phase from a copy of originalState
syncDiffFromCopy(originalState, joins, leaves, cb, ord) ==
  LET immutableJoins == coerceImmutable(joins, <<"joins">>)
      immutableLeaves == coerceImmutable(leaves, <<"leaves">>)
      afterJoins == stateAfterJoins(IMap(Oid(<<"copy">>), originalState.e), immutableJoins, ord)
      afterLeaves == stateAfterLeaves(afterJoins, immutableLeaves, ord)
      after == reduceChanged([state |-> afterLeaves, log |-> <<>>],
                             changedKeys(immutableJoins, immutableLeaves, ord),
                             originalState, cb)
  IN IF IsThrow(afterLeaves) THEN [ret |-> Throw, log |-> <<>>]
     ELSE IF cb = "none" THEN [ret |-> afterLeaves, log |-> <<>>]
     ELSE [ret |-> after.state, log |-> after.log]

\* export const syncDiff = function (originalState, {joins, leaves}, onChanged)
\* The result is [ret, log]: what the call returns (Throw when it raises) and
\* the calls of onChanged it made, in order.
syncDiff(originalState, joins, leaves, cb, ord) ==
  LET immutableJoins == coerceImmutable(joins, <<"joins">>)
      immutableLeaves == coerceImmutable(leaves, <<"leaves">>)
      afterJoins == stateAfterJoins(originalState, immutableJoins, ord)
      afterLeaves == stateAfterLeaves(afterJoins, immutableLeaves, ord)
      after == reduceChanged([state |-> afterLeaves, log |-> <<>>],
                             changedKeys(immutableJoins, immutableLeaves, ord),
                             originalState, cb)
  IN IF IsThrow(afterLeaves) THEN [ret |-> Throw, log |-> <<>>]
     ELSE IF cb = "none" THEN [ret |-> afterLeaves, log |-> <<>>]
     ELSE [ret |-> after.state, log |-> after.log]

\* the {joins, leaves} that syncState hands to syncDiff (part_001 lines
\* 21-35); raises says that an extractMetas raised
stateDelta(oldState, newState) ==
  LET N == fromJS(newState, <<>>)
      collisionKeys == {k \in DOMAIN N.e : Has(oldState, k)}
      newKeys == DOMAIN N.e \ collisionKeys
      onlyInOld == [k \in collisionKeys |->
                      extractMetas(N.e[k], Get(oldState, k), Oid(<<"L27", k>>))]
      onlyInNew == [k \in collisionKeys |->
                      extractMetas(Get(oldState, k), N.e[k], Oid(<<"L28", k>>))]
      notFoundKeys == DOMAIN oldState.e \ DOMAIN N.e
  IN [joins |-> IMap(Oid(<<"L34">>),
                     [k \in newKeys \cup collisionKeys |->
                        IF k \in newKeys THEN N.e[k] ELSE onlyInNew[k]]),
      leaves |-> IMap(Oid(<<"L35">>),
                      [k \in notFoundKeys \cup collisionKeys |->
                         IF k \in notFoundKeys THEN oldState.e[k] ELSE onlyInOld[k]]),
      raises |-> \E k \in collisionKeys : IsThrow(onlyInOld[k]) \/ IsThrow(onlyInNew[k])]

\* export const syncState = function (oldState, newState, onChanged)
syncState(oldState, newState, cb, ord) ==
  LET delta == stateDelta(oldState, newState)
  IN IF delta.raises THEN [ret |-> Throw, log |-> <<>>]
     ELSE syncDiff(oldState, delta.joins, delta.leaves, cb, ord)

\* isPresenceFormat without the look at the metas: every entry has a metas
\* field
isPresenceFormatMetasField(data) ==
  LET d == coerceImmutable(data, <<>>)
  IN \A key \in DOMAIN d.e : Has(d.e[key], "metas")

\* const isPresenceFormat = data => coerceImmutable(data).every(...)
\* (data is an object whose entries are objects or arrays, and a metas field
\* holds an array of objects: the shapes of the payloads below)
isPresenceFormat(data) ==
  LET d == coerceImmutable(data, <<>>)
  IN \A key \in DOMAIN d.e :
       LET presence == d.e[key]
       IN Has(presence, "metas")
          /\ \A i \in DOMAIN Get(presence, "metas").e :
               Has(Get(presence, "metas").e[i], "phx_ref")

\* export const sync = function (originalState, newData, onChanged)
sync(originalState, newData, cb, ord) ==
  IF Truthy(Field(newData, "joins")) /\ Truthy(Field(newData, "leaves"))
     /\ isPresenceFormat(Field(newData, "joins")) /\ isPresenceFormat(Field(newData, "leaves"))
  THEN syncDiff(originalState, Field(newData, "joins"), Field(newData, "leaves"), cb, ord)
  ELSE syncState(originalState, newData, cb, ord)

(***************************************************************************)
(* The library with per-event callbacks (src/src/index.js): syncState and  *)
(* syncDiff take onJoin and onLeave and call them inside the two reduces.  *)
(* cb names what the caller passed:                                        *)
(*   "none"         no callbacks                                           *)
(*   "events"       an onJoin and an onLeave that return                   *)
(*   "joinRaises"   an onJoin that throws, an onLeave that returns         *)
(*   "leaveRaises"  an onJoin that returns, an onLeave that throws         *)
(* A reduce carries [state, log]: the state so far (Throw once something   *)
(* raised) and the calls of the callbacks so far,                          *)
(*   [ev |-> "join",  key, cur |-> currentPresence,    pres |-> newPresence]  *)
(*   [ev |-> "leave", key, cur |-> currentNewPresence, pres |-> leftPresence] *)
(***************************************************************************)
EventCallbacks == {"none", "events", "joinRaises", "leaveRaises"}

\* a join step that hands onJoin the joined record as it came, not the merged
\* one
joinStepPerEventUnmerged(acc, newPresence, key, cb) ==
  LET state == acc.state
      currentPresence == Get(state, key)
      merged == IF Truthy(currentPresence)
                THEN IF ~IsList(Get(currentPresence, "metas")) THEN Throw
                     ELSE MapSet(newPresence, "metas",
                                 Concat(Get(currentPresence, "metas"), Get(newPresence, "metas")),
                                 Oid(<<"L41", key>>))
                ELSE newPresence
      call == [ev |-> "join", key |-> key, cur |-> currentPresence, pres |-> newPresence]
  IN IF IsThrow(state) THEN acc
     ELSE IF IsThrow(merged) THEN [state |-> Throw, log |-> acc.log]
     ELSE IF cb = "none"
     THEN [state |-> MapSet(state, key, merged, Oid(<<"L44", key>>)), log |-> acc.log]
     ELSE [state |-> IF cb = "joinRaises" THEN Throw
                     ELSE MapSet(state, key, merged, Oid(<<"L44", key>>)),
           log |-> Append(acc.log, call)]

\* one step of the reduce over joins (src/src/index.js lines 38-45)
joinStepPerEvent(acc, newPresence, key, cb) ==
  LET state == acc.state
      currentPresence == Get(state, key)
      merged == IF Truthy(currentPresence)
                THEN IF ~IsList(Get(currentPresence, "metas")) THEN Throw
                     ELSE MapSet(newPresence, "metas",
                                 Concat(Get(currentPresence, "metas"), Get(newPresence, "metas")),
                                 Oid(<<"L41", key>>))
                ELSE newPresence
      call == [ev |-> "join", key |-> key, cur |-> currentPresence, pres |-> merged]
  IN IF IsThrow(state) THEN acc
     ELSE IF IsThrow(merged) THEN [state |-> Throw, log |-> acc.log]
     ELSE IF cb = "none"
     THEN [state |-> MapSet(state, key, merged, Oid(<<"L44", key>>)), log |-> acc.log]
     ELSE [state |-> IF cb = "joinRaises" THEN Throw
                     ELSE MapSet(state, key, merged, Oid(<<"L44", key>>)),
           log |-> Append(acc.log, call)]

\* a leave step that calls onLeave only for a key that keeps a meta
leaveStepPerEventKeptOnly(acc, leftPresence, key, cb) ==
  LET state == acc.state
      currentPresence == Get(state, key)
      refsToRemove == Refs(Get(leftPresence, "metas"))
      currentMetas == FilterNotRefs(Get(currentPresence, "metas"), refsToRemove)
      currentNewPresence == MapSet(currentPresence, "metas", currentMetas, Oid(<<"L54", key>>))
      call == [ev |-> "leave", key |-> key, cur |-> currentNewPresence, pres |-> leftPresence]
      next == IF Len(currentMetas.e) # 0
              THEN MapSet(state, key, currentNewPresence, Oid(<<"L56", key>>))
              ELSE MapDelete(state, key, Oid(<<"L56", key>>))
  IN IF IsThrow(state) THEN acc
     ELSE IF ~Truthy(currentPresence) THEN acc
     ELSE IF ~MetasOk(leftPresence) \/ ~MetasOk(currentPresence)
     THEN [state |-> Throw, log |-> acc.log]
     ELSE IF cb = "none" \/ Len(currentMetas.e) = 0 THEN [state |-> next, log |-> acc.log]
     ELSE [state |-> IF cb = "leaveRaises" THEN Throw ELSE next,
           log |-> Append(acc.log, call)]

\* a leave step that keeps a key whose metas ran empty, with the record of no
\* metas
leaveStepPerEventNoDelete(acc, leftPresence, key, cb) ==
  LET state == acc.state
      currentPresence == Get(state, key)
      refsToRemove == Refs(Get(leftPresence, "metas"))
      currentMetas == FilterNotRefs(Get(currentPresence, "metas"), refsToRemove)
      currentNewPresence == MapSet(currentPresence, "metas", currentMetas, Oid(<<"L54", key>>))
      call == [ev |-> "leave", key |-> key, cur |-> currentNewPresence, pres |-> leftPresence]
      next == MapSet(state, key, currentNewPresence, Oid(<<"L56", key>>))
  IN IF IsThrow(state) THEN acc
     ELSE IF ~Truthy(currentPresence) THEN acc
     ELSE IF ~MetasOk(leftPresence) \/ ~MetasOk(currentPresence)
     THEN [state |-> Throw, log |-> acc.log]
     ELSE IF cb = "none" THEN [state |-> next, log |-> acc.log]
     ELSE [state |-> IF cb = "leaveRaises" THEN Throw ELSE next,
           log |-> Append(acc.log, call)]

\* one step of the reduce over leaves (src/src/index.js lines 47-57)
leaveStepPerEvent(acc, leftPresence, key, cb) ==
  LET state == acc.state
      currentPresence == Get(state, key)
      refsToRemove == Refs(Get(leftPresence, "metas"))
      currentMetas == FilterNotRefs(Get(currentPresence, "metas"), refsToRemove)
      currentNewPresence == MapSet(currentPresence, "metas", currentMetas, Oid(<<"L54", key>>))
      call == [ev |-> "leave", key |-> key, cur |-> currentNewPresence, pres |-> leftPresence]
      next == IF Len(currentMetas.e) # 0
              THEN MapSet(state, key, currentNewPresence, Oid(<<"L56", key>>))
              ELSE MapDelete(state, key, Oid(<<"L56", key>>))
  IN IF IsThrow(state) THEN acc
     ELSE IF ~Truthy(currentPresence) THEN acc
     ELSE IF ~MetasOk(leftPresence) \/ ~MetasOk(currentPresence)
     THEN [state |-> Throw, log |-> acc.log]
     ELSE IF cb = "none" THEN [state |-> next, log |-> acc.log]
     ELSE [state |-> IF cb = "leaveRaises" THEN Throw ELSE next,
           log |-> Append(acc.log, call)]

RECURSIVE reduceJoinsPerEvent(_, _, _, _)
reduceJoinsPerEvent(acc, joins, ks, cb) ==
  IF ks = <<>> THEN acc
  ELSE reduceJoinsPerEvent(joinStepPerEvent(acc, joins.e[Head(ks)], Head(ks), cb),
                           joins, Tail(ks), cb)

RECURSIVE reduceLeavesPerEvent(_, _, _, _)
reduceLeavesPerEvent(acc, leaves, ks, cb) ==
  IF ks = <<>> THEN acc
  ELSE reduceLeavesPerEvent(leaveStepPerEvent(acc, leaves.e[Head(ks)], Head(ks), cb),
                            leaves, Tail(ks), cb)

\* syncDiff with the two reduces the other way round: leaves, then joins
syncDiffPerEventLeavesFirst(state, joins, leaves, cb, ord) ==
  LET immutableJoins == IF isImmutable(joins) THEN joins ELSE fromJS(joins, <<"joins">>)
      immutableLeaves == IF isImmutable(leaves) THEN leaves ELSE fromJS(leaves, <<"leaves">>)
      afterLeaves == reduceLeavesPerEvent([state |-> state, log |-> <<>>], immutableLeaves,
                                          KeysIn(DOMAIN immutableLeaves.e, ord), cb)
      afterJoins == reduceJoinsPerEvent(afterLeaves, immutableJoins,
                                        KeysIn(DOMAIN immutableJoins.e, ord), cb)
  IN [ret |-> afterJoins.state, log |-> afterJoins.log]

\* export const syncDiff = function (state, {joins, leaves}, onJoin, onLeave)
\* (src/src/index.js).  The result is [ret, log] as for syncDiff.
syncDiffPerEvent(state, joins, leaves, cb, ord) ==
  LET immutableJoins == IF isImmutable(joins) THEN joins ELSE fromJS(joins, <<"joins">>)
      immutableLeaves == IF isImmutable(leaves) THEN leaves ELSE fromJS(leaves, <<"leaves">>)
      afterJoins == reduceJoinsPerEvent([state |-> state, log |-> <<>>], immutableJoins,
                                        KeysIn(DOMAIN immutableJoins.e, ord), cb)
      afterLeaves == reduceLeavesPerEvent(afterJoins, immutableLeaves,
                                          KeysIn(DOMAIN immutableLeaves.e, ord), cb)
  IN [ret |-> afterLeaves.state, log |-> afterLeaves.log]

\* export const syncState = function (oldState, newState, onJoin, onLeave)
\* (src/src/index.js lines 15-32; the joins and leaves are computed by the
\* same statements as in the library with onChanged)
syncStatePerEvent(oldState, newState, cb, ord) ==
  LET delta == stateDelta(oldState, newState)
  IN IF delta.raises THEN [ret |-> Throw, log |-> <<>>]
     ELSE syncDiffPerEvent(oldState, delta.joins, delta.leaves, cb, ord)

(***************************************************************************)
(* list.  chooser names what the caller passed: "presence" is the default  *)
(* (key, presence) => presence, "first" is the chooser of the tests,       *)
(* (key, presence) => presence.get('metas').first().  The result is the    *)
(* sequence of what chooser returned, in the iteration order of the State. *)
(***************************************************************************)
Choosers == {"presence", "first"}

chooser(ch, key, presence) ==
  IF ch = "presence" THEN presence
  ELSE IF ~IsList(Get(presence, "metas")) THEN Throw
  ELSE IF Get(presence, "metas").e = <<>> THEN Undefined
  ELSE Get(presence, "metas").e[1]

ValueSeq(s) == [t |-> "Seq", e |-> s]

\* a list that stops after the first key of the State
listFirstKeyOnly(state, ch, ord) ==
  LET ks == KeysIn(DOMAIN state.e, ord)
      vs == [i \in DOMAIN ks \cap {1} |-> chooser(ch, ks[i], state.e[ks[i]])]
  IN [ret |-> IF \E i \in DOMAIN vs : IsThrow(vs[i]) THEN Throw ELSE ValueSeq(vs),
      log |-> <<>>]

\* export const list = function (state, chooser = (key, presence) => presence)
list(state, ch, ord) ==
  LET ks == KeysIn(DOMAIN state.e, ord)
      vs == [i \in DOMAIN ks |-> chooser(ch, ks[i], state.e[ks[i]])]
  IN [ret |-> IF \E i \in DOMAIN vs : IsThrow(vs[i]) THEN Throw ELSE ValueSeq(vs),
      log |-> <<>>]

(***************************************************************************)
(* Payloads: what the server sends, in plain JavaScript.                   *)
(***************************************************************************)
Meta(r, i) == Obj([phx_ref |-> Str(r), id |-> Str(i)])
A == Meta("r1", "a")
B == Meta("r2", "a")
A2 == Meta("r1", "b")
NoRef == Obj([id |-> Str("a")])
Rec(metas) == Obj([metas |-> Arr(metas)])

\* a snapshot-shaped object: key k maps to the record with the metas f[k]
Snap(f) == Obj([k \in DOMAIN f |-> Rec(f[k])])
NoKeys == [k \in {} |-> <<>>]

\* what a payload holds for one key: nothing, or a record with these metas
Absent == [has |-> FALSE, metas |-> <<>>]
With(metas) == [has |-> TRUE, metas |-> metas]
Pick(k1, k2) ==
  [k \in (IF k1.has THEN {"u1"} ELSE {}) \cup (IF k2.has THEN {"u2"} ELSE {}) |->
     IF k = "u1" THEN k1.metas ELSE k2.metas]

SnapLists1 == {Absent, With(<<>>), With(<<A>>), With(<<B>>), With(<<A2>>),
               With(<<A, B>>), With(<<B, A>>)}
SnapLists2 == {Absent, With(<<A>>)}
Snapshots == {Snap(Pick(k1, k2)) : k1 \in SnapLists1, k2 \in SnapLists2}

\* u1 is the key the diffs work on; u2 is the other key of the State, which
\* snapshots bring and leaves take
JoinLists1 == {Absent, With(<<>>), With(<<A>>), With(<<B>>)}
JoinLists2 == {Absent}
LeaveLists1 == {Absent, With(<<A>>), With(<<A, B>>)}
LeaveLists2 == {Absent, With(<<A>>)}
Diffs == {Obj([joins |-> Snap(Pick(j1, j2)), leaves |-> Snap(Pick(l1, l2))]) :
            j1 \in JoinLists1, j2 \in JoinLists2, l1 \in LeaveLists1, l2 \in LeaveLists2}

\* payloads of sync: diffs, snapshots, a snapshot whose keys are named joins
\* and leaves, and payloads that miss being a diff by one field
SyncPayloads ==
  { Obj([joins |-> Snap(Pick(With(<<B>>), Absent)), leaves |-> Snap(Pick(With(<<A>>), Absent))]),
    Obj([joins |-> Snap(NoKeys), leaves |-> Snap(NoKeys)]),
    Snap(Pick(With(<<A>>), Absent)),
    Obj([joins |-> Rec(<<A>>), leaves |-> Rec(<<B>>)]),
    Obj([joins |-> Snap(Pick(With(<<A>>), Absent))]),
    Obj([joins |-> Snap(Pick(With(<<NoRef>>), Absent)), leaves |-> Snap(NoKeys)]),
    Obj([joins |-> Snap(NoKeys), leaves |-> Rec(<<B>>)]) }

KeyOrder == <<"u1", "u2", "joins", "leaves">>
Reverse(s) == [i \in DOMAIN s |-> s[Len(s) + 1 - i]]
Orders == {KeyOrder, Reverse(KeyOrder)}

Callbacks == {"none", "void", "extra", "bad", "old", "raise"}

\* the most metas a record of the held State has
MaxMetas == 2

(***************************************************************************)
(* The caller.  It holds one State, calls the library with it and a        *)
(* payload, and keeps what the call returns.  The library never compares   *)
(* an object of the State with an object of an earlier call, so the held   *)
(* State is kept by value, each of its Maps named by its place in it.      *)
(***************************************************************************)
RECURSIVE Tag(_, _)
Tag(v, path) ==
  CASE v.t = "Map" -> IMap(Oid(path), [k \in DOMAIN v.e |-> Tag(v.e[k], Append(path, k))])
    [] v.t = "List" ->
         IList([i \in DOMAIN v.e |-> Tag(v.e[i], Append(path, ToString(i)))])
    [] OTHER -> v

Held(v) == Tag(Val(v), <<"state">>)

VARIABLES state, pc, op, old, payload, cb, ret, log
vars == <<state, pc, op, old, payload, cb, ret, log>>

Init ==
  /\ state = Held(emptyState)
  /\ pc = "idle"
  /\ op = "none"
  /\ old = Undefined
  /\ payload = Undefined
  /\ cb = "none"
  /\ ret = Undefined
  /\ log = <<>>

\* no record of r has more than MaxMetas metas
Fits(r) ==
  IF IsThrow(r) THEN TRUE
  ELSE \A k \in DOMAIN r.e :
         IF IsList(Get(r.e[k], "metas")) THEN Len(Get(r.e[k], "metas").e) <= MaxMetas ELSE TRUE

\* a call that changes the State it is given in place: the caller's State is
\* the result when the call is over
CallInPlace(name, p, f, r) ==
  /\ pc = "idle"
  /\ Fits(r.ret)
  /\ pc' = "returned"
  /\ op' = name
  /\ old' = state
  /\ payload' = p
  /\ cb' = f
  /\ ret' = r.ret
  /\ log' = r.log
  /\ state' = IF IsThrow(r.ret) \/ name = "list" THEN state ELSE r.ret

Call(name, p, f, r) ==
  /\ pc = "idle"
  /\ Fits(r.ret)
  /\ pc' = "returned"
  /\ op' = name
  /\ old' = state
  /\ payload' = p
  /\ cb' = f
  /\ ret' = r.ret
  /\ log' = r.log
  /\ UNCHANGED state

SyncState ==
  \E p \in Snapshots, f \in Callbacks, ord \in Orders :
    Call("syncState", p, f, syncState(state, p, f, ord))

SyncDiff ==
  \E p \in Diffs, f \in Callbacks, ord \in Orders :
    Call("syncDiff", p, f, syncDiff(state, Field(p, "joins"), Field(p, "leaves"), f, ord))

Sync ==
  \E p \in SyncPayloads, f \in Callbacks, ord \in Orders :
    Call("sync", p, f, sync(state, p, f, ord))

SyncStatePerEvent ==
  \E p \in Snapshots, f \in EventCallbacks, ord \in Orders :
    Call("syncStatePerEvent", p, f, syncStatePerEvent(state, p, f, ord))

SyncDiffPerEvent ==
  \E p \in Diffs, f \in EventCallbacks, ord \in Orders :
    Call("syncDiffPerEvent", p, f,
         syncDiffPerEvent(state, Field(p, "joins"), Field(p, "leaves"), f, ord))

List ==
  \E ch \in Choosers, ord \in Orders :
    Call("list", Undefined, ch, list(state, ch, ord))

\* the caller keeps the returned State; a call that raised leaves it with
\* the State it had, and so does list
Keep ==
  /\ pc = "returned"
  /\ pc' = "idle"
  /\ state' = IF IsThrow(ret) \/ op = "list" THEN state ELSE Held(ret)
  /\ op' = "none"
  /\ old' = Undefined
  /\ payload' = Undefined
  /\ cb' = "none"
  /\ ret' = Undefined
  /\ log' = <<>>

\* a caller of the library with onChanged (src/index.js as the tests of
\* test/presence.test.js use it)
Next ==
  \/ SyncState
  \/ SyncDiff
  \/ Sync
  \/ List
  \/ Keep

Spec == Init /\ [][Next]_vars

\* a caller that synchronizes only: syncState, syncDiff and sync with
\* onChanged
NextSync ==
  \/ SyncState
  \/ SyncDiff
  \/ Sync
  \/ Keep

SpecSync == Init /\ [][NextSync]_vars

\* a caller of the library with onJoin and onLeave (src/src/index.js)
NextPerEvent ==
  \/ SyncStatePerEvent
  \/ SyncDiffPerEvent
  \/ Keep

SpecPerEvent == Init /\ [][NextPerEvent]_vars

\* a caller that has both notification contracts at hand
NextBoth ==
  \/ SyncState
  \/ SyncDiff
  \/ Sync
  \/ SyncStatePerEvent
  \/ SyncDiffPerEvent
  \/ List
  \/ Keep

SpecBoth == Init /\ [][NextBoth]_vars

(***************************************************************************)
(* Properties.  A call is over at pc = "returned": old is the State it was *)
(* given, payload and cb its other arguments, ret what it returned and     *)
(* log the calls of onChanged it made.                                     *)
(***************************************************************************)
AllKeys == {KeyOrder[i] : i \in DOMAIN KeyOrder}

Returned(name) == pc = "returned" /\ op = name /\ ~IsThrow(ret)

\* the payload canonicalized: Immutable.fromJS of it
Canonical == fromJS(payload, <<>>)

\* the metas of key k in State S, as a sequence (none when S lacks k)
MetasAt(S, k) == IF IsList(Get(Get(S, k), "metas")) THEN Get(Get(S, k), "metas").e ELSE <<>>

\* the refs of key k in State S
RefsAt(S, k) == {Get(MetasAt(S, k)[i], "phx_ref") : i \in DOMAIN MetasAt(S, k)}

\* the callback leaves the State as the applier computed it
Plain == cb \in {"none", "void", "bad"}

\* the callback returns a record made of objects other than the ones it was
\* called with
ReturnsOwn == cb = "old"

\* every record of S is {metas: [...]} with at least one meta and no other
\* field
ProperRecords(S) ==
  \A k \in DOMAIN S.e : DOMAIN S.e[k].e = {"metas"} /\ MetasAt(S, k) # <<>>

\* C1, as stated: syncState(oldState, N) returns a State value-equal to
\* canonicalized N (same keys, and for every key the same metas in the same
\* order).  Stated here for an oldState and an N whose records all have
\* metas, where a difference is one of the metas or of their order.
C1_SyncStateEqualsSnapshot ==
  (Returned("syncState") /\ cb = "none" /\ ProperRecords(old) /\ ProperRecords(Canonical))
    => Is(ret, Canonical)

\* C1, amended: for every key, syncState(oldState, N) holds exactly the refs
\* that N holds for that key (a missing key holds none), and the result is
\* value-equal to canonicalized N when oldState and N share no key.
C1_SyncStateSameRefs ==
  Returned("syncState") =>
    /\ \A k \in AllKeys : RefsAt(ret, k) = RefsAt(Canonical, k)
    /\ (Plain /\ DOMAIN old.e \cap DOMAIN Canonical.e = {}) => Is(ret, Canonical)

\* a syncState over a key both sides hold, with some refs kept, some new,
\* whose result is not the snapshot
C1_Witness ==
  /\ Returned("syncState") /\ cb = "none"
  /\ \E k \in DOMAIN old.e \cap DOMAIN Canonical.e :
       /\ RefsAt(old, k) \cap RefsAt(Canonical, k) # {}
       /\ RefsAt(Canonical, k) \ RefsAt(old, k) # {}
  /\ ~Is(ret, Canonical)

\* the keys of the joins and of the leaves of a syncDiff payload
JoinKeys == DOMAIN Field(payload, "joins").e
LeaveKeys == DOMAIN Field(payload, "leaves").e

\* C2: every key of the input State that is in neither joins nor leaves
\* maps, in the State syncDiff returns, to the identical record object it had
\* in the input State, with and without an onChanged callback.
C2_UntouchedRecordsIdentical ==
  Returned("syncDiff") =>
    \A k \in DOMAIN old.e \ (JoinKeys \cup LeaveKeys) :
      Has(ret, k) /\ ret.e[k].oid = old.e[k].oid /\ ret.e[k] = old.e[k]

\* a syncDiff with a callback that returns a record, which changed one key of
\* the State and had another key to leave alone
C2_Witness ==
  /\ Returned("syncDiff") /\ cb = "extra"
  /\ DOMAIN old.e \ (JoinKeys \cup LeaveKeys) # {}
  /\ \E k \in JoinKeys \cup LeaveKeys : Has(old, k) /\ Get(ret, k) # Get(old, k)

\* C3: every key present in a State reached from the empty State by
\* syncState, syncDiff and sync has a record with at least one meta.
C3_NoRecordWithoutMetas ==
  \A k \in DOMAIN state.e :
    IsList(Get(state.e[k], "metas")) => Len(Get(state.e[k], "metas").e) > 0

\* C6: syncDiff(state, {joins: {}, leaves: {}}) with no callback returns the
\* very State object it was given.
C6_EmptyDiffSameReference ==
  (Returned("syncDiff") /\ cb = "none" /\ JoinKeys = {} /\ LeaveKeys = {})
    => ret.oid = old.oid /\ ret = old

\* an empty diff applied to a State that holds a presence
C6_Witness ==
  /\ Returned("syncDiff") /\ cb = "none" /\ JoinKeys = {} /\ LeaveKeys = {}
  /\ DOMAIN old.e # {}

\* The presence-format predicate in the words of the specification, on a
\* plain payload value: every entry is a record with a metas field whose
\* every element has a ref field.
PresenceFormat(v) ==
  /\ v.t = "obj"
  /\ \A k \in DOMAIN v.e :
       /\ v.e[k].t = "obj"
       /\ "metas" \in DOMAIN v.e[k].e
       /\ v.e[k].e["metas"].t = "arr"
       /\ \A i \in DOMAIN v.e[k].e["metas"].e :
            /\ v.e[k].e["metas"].e[i].t = "obj"
            /\ "phx_ref" \in DOMAIN v.e[k].e["metas"].e[i].e

\* a payload is a diff: it has a joins and a leaves field, both in presence
\* format
DiffShaped(p) ==
  /\ "joins" \in DOMAIN p.e
  /\ "leaves" \in DOMAIN p.e
  /\ PresenceFormat(p.e["joins"])
  /\ PresenceFormat(p.e["leaves"])

\* the keys of the delta the call applied: those of the payload's joins and
\* leaves for a diff, those of the joins and leaves syncState computed for a
\* snapshot
DeltaKeys ==
  IF op = "syncDiff" \/ (op = "sync" /\ DiffShaped(payload))
  THEN JoinKeys \cup LeaveKeys
  ELSE DOMAIN stateDelta(old, payload).joins.e \cup DOMAIN stateDelta(old, payload).leaves.e

\* the number of calls of onChanged with key k
CallsFor(k) == Cardinality({i \in DOMAIN log : log[i].key = k})

\* C4: with an onChanged callback, one call of syncDiff (or of syncState or
\* sync delegating to it) calls onChanged exactly once for each key that is
\* in joins or in leaves, also when the key is in both, and never for a key
\* in neither.
C4_OnChangedOncePerKey ==
  (pc = "returned" /\ op \in {"syncState", "syncDiff", "sync"} /\ ~IsThrow(ret) /\ cb # "none") =>
    \A k \in AllKeys : CallsFor(k) = (IF k \in DeltaKeys THEN 1 ELSE 0)

\* a syncDiff with a callback, one key in both joins and leaves, another key
\* in one of them, and a key of the State in neither
C4_Witness ==
  /\ Returned("syncDiff") /\ cb = "void"
  /\ JoinKeys \cap LeaveKeys # {}
  /\ Cardinality(JoinKeys \cup LeaveKeys) > 1
  /\ DOMAIN old.e \ (JoinKeys \cup LeaveKeys) # {}

\* C5: sync treats the payload as a diff (returns what syncDiff returns) iff
\* the payload has a joins and a leaves field that both are in presence
\* format, and as a snapshot (returns what syncState returns) otherwise; a
\* snapshot whose keys are named joins and leaves, applied to the empty
\* State, yields a State with exactly those two keys.
C5_SyncClassifies ==
  (pc = "returned" /\ op = "sync") =>
    /\ \E ord \in Orders :
         [ret |-> ret, log |-> log] =
           IF DiffShaped(payload)
           THEN syncDiff(old, Field(payload, "joins"), Field(payload, "leaves"), cb, ord)
           ELSE syncState(old, payload, cb, ord)
    /\ (/\ DOMAIN old.e = {}
        /\ cb # "raise"
        /\ DOMAIN payload.e = {"joins", "leaves"}
        /\ \A k \in DOMAIN payload.e : DOMAIN payload.e[k].e = {"metas"})
       => (~IsThrow(ret) /\ DOMAIN ret.e = {"joins", "leaves"}
           /\ \A k \in DOMAIN ret.e : Is(Get(ret.e[k], "metas"), Get(Canonical.e[k], "metas")))

\* sync of the snapshot {joins: {metas: [...]}, leaves: {metas: [...]}} on the
\* empty State
C5_Witness ==
  /\ pc = "returned" /\ op = "sync" /\ ~IsThrow(ret)
  /\ DOMAIN old.e = {}
  /\ DOMAIN payload.e = {"joins", "leaves"}
  /\ ~DiffShaped(payload)
  /\ DOMAIN ret.e = {"joins", "leaves"}

\* C7: syncState(emptyState(), newState) is value-equal to canonicalized
\* newState, and so is sync(emptyState(), newState) when newState is
\* classified as a snapshot.
C7_SyncEmptyState ==
  (/\ pc = "returned"
   /\ op = "syncState" \/ (op = "sync" /\ ~DiffShaped(payload))
   /\ DOMAIN old.e = {}
   /\ Plain)
  => (~IsThrow(ret) /\ Is(ret, Canonical))

\* a syncState of a snapshot with two keys, one of them with two metas, on the
\* empty State
C7_Witness ==
  /\ Returned("syncState") /\ cb = "none"
  /\ DOMAIN old.e = {}
  /\ Cardinality(DOMAIN ret.e) = 2
  /\ \E k \in DOMAIN ret.e : Len(MetasAt(ret, k)) = 2

\* the joins of a syncDiff payload as syncDiff holds them (immutableJoins)
Joined == coerceImmutable(Field(payload, "joins"), <<"joins">>)
Left == coerceImmutable(Field(payload, "leaves"), <<"leaves">>)

\* the metas of key k when the join phase is over: the metas the State had,
\* then the joined ones
AfterJoin(k) ==
  IF k \in JoinKeys THEN MetasAt(old, k) \o MetasAt(Joined, k) ELSE MetasAt(old, k)

\* what is left of them when the metas with a ref of the leave payload of k
\* are taken out
Remaining(k) ==
  SelectSeq(AfterJoin(k), LAMBDA m : Get(m, "phx_ref") \notin RefsAt(Left, k))

\* C8: join phase of syncDiff.  For a key of joins that the State lacks, the
\* join's record becomes the entry as it is; for a key the State has, the
\* metas are the State's metas (the same objects, in their order) followed
\* by the join's metas in their order.
C8_JoinAppends ==
  Returned("syncDiff") =>
    /\ \A k \in JoinKeys :
         LET afterJoins == stateAfterJoins(old, Joined, KeyOrder)
         IN /\ Has(afterJoins, k)
            /\ Get(afterJoins.e[k], "metas") = IList(MetasAt(old, k) \o MetasAt(Joined, k))
            /\ ~Has(old, k) => afterJoins.e[k] = Joined.e[k]
    /\ \A k \in JoinKeys \ LeaveKeys :
         /\ Has(ret, k)
         /\ Is(Get(ret.e[k], "metas"), IList(MetasAt(old, k) \o MetasAt(Joined, k)))
         /\ ~ReturnsOwn =>
              Get(ret.e[k], "metas") = IList(MetasAt(old, k) \o MetasAt(Joined, k))
         /\ (~Has(old, k) /\ Plain) => ret.e[k] = Joined.e[k]

\* a join of a meta onto a key that has metas already
C8_Witness ==
  /\ Returned("syncDiff")
  /\ \E k \in JoinKeys \ LeaveKeys :
       /\ MetasAt(old, k) # <<>>
       /\ MetasAt(Joined, k) # <<>>
       /\ Val(IList(MetasAt(old, k))) # Val(IList(MetasAt(Joined, k)))

\* C9: leave phase of syncDiff.  A key of leaves that the State holds when
\* the leave phase starts is absent from the returned State iff no meta is
\* left once the metas with a ref of its leave payload are taken out; a key
\* that is not in leaves stays.
C9_LeaveDeletesEmptied ==
  Returned("syncDiff") =>
    \A k \in DOMAIN old.e \cup JoinKeys :
      IF k \in LeaveKeys
      THEN ~Has(ret, k) <=> Remaining(k) = <<>>
      ELSE Has(ret, k)

\* leaves that take every meta of a key the State held, which is gone
C9_Witness ==
  /\ Returned("syncDiff")
  /\ \E k \in (DOMAIN old.e \cap LeaveKeys) \ JoinKeys :
       MetasAt(old, k) # <<>> /\ ~Has(ret, k)

\* C10: for a key of leaves that keeps a meta, the returned metas are the
\* metas of the key whose ref is not in the leave payload, as the same
\* objects in their order; refs the key does not hold are ignored, and a
\* leave for a key the State lacks changes nothing.
C10_LeaveIsDifferenceByRef ==
  Returned("syncDiff") =>
    /\ \A k \in LeaveKeys :
         /\ Has(ret, k) =>
              /\ Remaining(k) # <<>>
              /\ Is(Get(ret.e[k], "metas"), IList(Remaining(k)))
              /\ ~ReturnsOwn => Get(ret.e[k], "metas") = IList(Remaining(k))
         /\ k \notin DOMAIN old.e \cup JoinKeys => ~Has(ret, k)
    /\ (JoinKeys = {} /\ LeaveKeys \cap DOMAIN old.e = {} /\ cb = "none") => ret = old

\* a leave that takes one meta of a key and leaves it another
C10_Witness ==
  /\ Returned("syncDiff")
  /\ \E k \in LeaveKeys \ JoinKeys :
       /\ Has(ret, k)
       /\ Len(MetasAt(ret, k)) < Len(MetasAt(old, k))
       /\ MetasAt(ret, k)[1] = MetasAt(old, k)[Len(MetasAt(old, k))]

\* a call of the library with an onChanged parameter is over
PostApply == pc = "returned" /\ op \in {"syncState", "syncDiff", "sync"}

\* what the callback returned in the i-th call of onChanged
Returns(i) == onChanged(cb, log[i].key, log[i].new, log[i].old)

\* the callback's return value of call i is one the State takes: there is a
\* value, there is a record of the key, and the metas of the two are
\* value-equal
Taken(i) ==
  /\ Truthy(Returns(i)) /\ ~IsThrow(Returns(i))
  /\ Truthy(log[i].new)
  /\ Is(Get(Returns(i), "metas"), Get(log[i].new, "metas"))

\* C11: no call of onChanged is made before the join phase and the leave
\* phase are both applied: each call gets the key, the record of the key in
\* the State after joins and leaves (undefined when the key is absent
\* there), and the record of the key in the State the call was given
\* (undefined when absent).
C11_OnChangedAfterBothPhases ==
  (PostApply /\ cb # "none") =>
    \A i \in DOMAIN log :
      LET k == log[i].key
      IN /\ log[i].old = Get(old, k)
         /\ (cb = "void" /\ ~IsThrow(ret)) => log[i].new = Get(ret, k)
         /\ op = "syncDiff" =>
              IF k \in LeaveKeys
              THEN IF Remaining(k) = <<>> THEN log[i].new = Undefined
                   ELSE Get(log[i].new, "metas") = IList(Remaining(k))
              ELSE Get(log[i].new, "metas") = IList(AfterJoin(k))

\* a call of onChanged for a key of the State that a diff both joined a meta
\* to and took a meta from
C11_Witness ==
  /\ Returned("syncDiff") /\ cb = "void"
  /\ \E i \in DOMAIN log :
       /\ log[i].key \in JoinKeys \cap LeaveKeys
       /\ Truthy(log[i].old) /\ Truthy(log[i].new)
       /\ MetasAt(Joined, log[i].key) # <<>>
       /\ Len(Remaining(log[i].key)) < Len(AfterJoin(log[i].key))

\* C12: when onChanged returns a value for a key that has a record after
\* joins and leaves, and the metas of the value are value-equal to that
\* record's metas, the returned State maps the key to the returned value:
\* a field the callback added is in the State.
C12_ReturnedRecordKept ==
  (PostApply /\ ~IsThrow(ret) /\ cb # "none") =>
    \A i \in DOMAIN log :
      /\ Taken(i) => Get(ret, log[i].key) = Returns(i)
      /\ (cb = "extra" /\ Truthy(log[i].new)) =>
           /\ Get(Get(ret, log[i].key), "extraData") = Str(log[i].key)
           /\ Get(Get(ret, log[i].key), "metas") = Get(log[i].new, "metas")

\* a callback added a field to the record of a key that joined a meta
C12_Witness ==
  /\ PostApply /\ ~IsThrow(ret) /\ cb = "extra"
  /\ \E i \in DOMAIN log :
       /\ Truthy(log[i].old)
       /\ Len(MetasAt(ret, log[i].key)) > Len(MetasAt(old, log[i].key))
       /\ Has(Get(ret, log[i].key), "extraData")

\* C13: a value onChanged returns whose metas differ from the metas of the
\* computed record, or that it returns for a key that has no record after
\* joins and leaves, is discarded: the returned State holds the computed
\* record for the key, or no entry when the key was removed.
C13_OtherReturnsDiscarded ==
  (PostApply /\ ~IsThrow(ret) /\ cb # "none") =>
    \A i \in DOMAIN log :
      /\ ~Truthy(log[i].new) => ~Has(ret, log[i].key)
      /\ (Truthy(log[i].new) /\ ~Taken(i)) =>
           (Has(ret, log[i].key) /\ ret.e[log[i].key] = log[i].new)

\* a callback returned a record for a key that was removed and a record with
\* other metas for a key that stays
C13_Witness ==
  /\ PostApply /\ ~IsThrow(ret) /\ cb = "old"
  /\ \E i \in DOMAIN log :
       Truthy(Returns(i)) /\ ~Truthy(log[i].new) /\ ~Has(ret, log[i].key)
  /\ \E i \in DOMAIN log :
       /\ Truthy(Returns(i)) /\ Truthy(log[i].new)
       /\ ~Is(Get(Returns(i), "metas"), Get(log[i].new, "metas"))
       /\ Get(ret, log[i].key) = log[i].new

C15_MalformedPayloadRaises ==
  (pc = "returned" /\ op = "sync" /\ cb = "none"
   /\ ~DiffShaped(payload) /\ ~PresenceFormat(payload))
    => IsThrow(ret)

\* the calls of onJoin and of onLeave in the log of a call of the library
\* with per-event callbacks
JoinCalls == {i \in DOMAIN log : log[i].ev = "join"}
LeaveCalls == {i \in DOMAIN log : log[i].ev = "leave"}

PerEvent == pc = "returned" /\ op \in {"syncStatePerEvent", "syncDiffPerEvent"}

\* C16: when an onJoin, onLeave or onChanged callback raises, the call of
\* the library raises (no State is returned), no further callback is called
\* and the State passed in is as it was.
C16_CallbackRaisePropagates ==
  /\ (PostApply /\ cb = "raise" /\ log # <<>>) =>
       (IsThrow(ret) /\ Len(log) = 1 /\ state = old)
  /\ (PerEvent /\ cb = "joinRaises" /\ JoinCalls # {}) =>
       (IsThrow(ret) /\ Len(log) = 1 /\ state = old)
  /\ (PerEvent /\ cb = "leaveRaises" /\ LeaveCalls # {}) =>
       (IsThrow(ret) /\ Cardinality(LeaveCalls) = 1 /\ log[Len(log)].ev = "leave"
        /\ state = old)
  /\ (PostApply /\ cb = "raise" /\ DeltaKeys # {}) => IsThrow(ret)

\* an onLeave that raised when a join of the same call was applied already
C16_Witness ==
  /\ PerEvent /\ cb = "leaveRaises" /\ IsThrow(ret)
  /\ JoinCalls # {} /\ LeaveCalls # {}
  /\ DOMAIN state.e # {}

\* the joins and the leaves a call with per-event callbacks applies: those
\* of the payload for syncDiff, those syncState computes for a snapshot
EventJoins ==
  IF op = "syncDiffPerEvent" THEN Joined ELSE stateDelta(old, payload).joins
EventLeaves ==
  IF op = "syncDiffPerEvent" THEN Left ELSE stateDelta(old, payload).leaves

\* the metas of key k after the join phase and after the leave phase
EventAfterJoin(k) ==
  IF Has(EventJoins, k) THEN MetasAt(old, k) \o MetasAt(EventJoins, k) ELSE MetasAt(old, k)
EventRemaining(k) ==
  SelectSeq(EventAfterJoin(k), LAMBDA m : Get(m, "phx_ref") \notin RefsAt(EventLeaves, k))

\* C17: onLeave is called as onLeave(key, the record of the key with the
\* left metas removed, the leave record as the delta gives it), also when the
\* key ends up deleted: the second argument then is a record with no metas.
C17_OnLeaveArguments ==
  (PerEvent /\ cb = "events" /\ ~IsThrow(ret)) =>
    /\ \A i \in LeaveCalls :
         LET k == log[i].key
         IN /\ Has(EventLeaves, k)
            /\ log[i].pres = EventLeaves.e[k]
            /\ Get(log[i].cur, "metas") = IList(EventRemaining(k))
            /\ Has(ret, k) => ret.e[k] = log[i].cur
            /\ ~Has(ret, k) => Get(log[i].cur, "metas") = IList(<<>>)
    /\ \A k \in DOMAIN old.e \cap DOMAIN EventLeaves.e :
         ~Has(ret, k) => \E i \in LeaveCalls : log[i].key = k

\* an onLeave for a key that the call deleted and one for a key that keeps a
\* meta
C17_Witness ==
  /\ PerEvent /\ cb = "events" /\ ~IsThrow(ret)
  /\ \E i \in LeaveCalls :
       /\ ~Has(ret, log[i].key) /\ MetasAt(old, log[i].key) # <<>>
       /\ Get(log[i].cur, "metas") = IList(<<>>)
  /\ \E i \in LeaveCalls :
       Has(ret, log[i].key) /\ Len(MetasAt(ret, log[i].key)) < Len(MetasAt(old, log[i].key))

\* C18: onJoin is called as onJoin(key, the record the key had in the state
\* just before this join (undefined when it had none), the merged record:
\* the existing metas followed by the joined metas).
C18_OnJoinArguments ==
  (PerEvent /\ cb \in {"events", "leaveRaises"}) =>
    \A i \in JoinCalls :
      LET k == log[i].key
      IN /\ Has(EventJoins, k)
         /\ log[i].cur = Get(old, k)
         /\ Get(log[i].pres, "metas") = IList(MetasAt(old, k) \o MetasAt(EventJoins, k))
         /\ ~Has(old, k) => log[i].pres = EventJoins.e[k]

\* an onJoin for a key that had a meta and joins another
C18_Witness ==
  /\ PerEvent /\ cb = "events" /\ ~IsThrow(ret)
  /\ \E i \in JoinCalls :
       /\ MetasAt(old, log[i].key) # <<>>
       /\ MetasAt(EventJoins, log[i].key) # <<>>
       /\ Len(Get(log[i].pres, "metas").e) = 2

\* the number of calls of onJoin and of onLeave with key k
JoinCallsFor(k) == Cardinality({i \in JoinCalls : log[i].key = k})
LeaveCallsFor(k) == Cardinality({i \in LeaveCalls : log[i].key = k})

\* every call of onJoin comes before every call of onLeave
JoinsBeforeLeaves == \A i \in LeaveCalls, j \in JoinCalls : j < i

\* C19, as stated: one syncDiff calls onJoin exactly once for every key of
\* joins and onLeave exactly once for every key of leaves, and every onJoin
\* comes before every onLeave.
C19_OncePerKeyPerPhase ==
  (pc = "returned" /\ op = "syncDiffPerEvent" /\ cb = "events" /\ ~IsThrow(ret)) =>
    /\ \A k \in AllKeys :
         /\ JoinCallsFor(k) = (IF k \in JoinKeys THEN 1 ELSE 0)
         /\ LeaveCallsFor(k) = (IF k \in LeaveKeys THEN 1 ELSE 0)
    /\ JoinsBeforeLeaves

\* C19, amended: onJoin is called exactly once for every key of joins, and
\* onLeave exactly once for every key of leaves that the state holds when the
\* join phase is over and not at all for a key of leaves it lacks; every
\* onJoin comes before every onLeave.
C19_OncePerPresentKey ==
  (pc = "returned" /\ op = "syncDiffPerEvent" /\ cb = "events" /\ ~IsThrow(ret)) =>
    /\ \A k \in AllKeys :
         /\ JoinCallsFor(k) = (IF k \in JoinKeys THEN 1 ELSE 0)
         /\ LeaveCallsFor(k) =
              (IF k \in LeaveKeys /\ k \in DOMAIN old.e \cup JoinKeys THEN 1 ELSE 0)
    /\ JoinsBeforeLeaves

\* a syncDiff that joined and left one key, left another key the state held
\* or lacked
C19_Witness ==
  /\ pc = "returned" /\ op = "syncDiffPerEvent" /\ cb = "events" /\ ~IsThrow(ret)
  /\ JoinKeys \cap LeaveKeys # {}
  /\ Cardinality(LeaveKeys) = 2
  /\ Cardinality(LeaveCalls) = 1

\* C20: syncState calls onJoin only for keys that gained a meta and onLeave
\* only for keys that lost a meta: for a key of both the old State and the
\* snapshot that lost no meta onLeave is not called, and for one that gained
\* no meta onJoin is not called.  Stated for States and snapshots whose
\* records all have metas.
C20_OnlyGainedOrLost ==
  (/\ pc = "returned" /\ op = "syncStatePerEvent" /\ cb = "events" /\ ~IsThrow(ret)
   /\ ProperRecords(old) /\ ProperRecords(Canonical))
  => \A k \in DOMAIN old.e \cap DOMAIN Canonical.e :
       /\ RefsAt(old, k) \subseteq RefsAt(Canonical, k) => LeaveCallsFor(k) = 0
       /\ RefsAt(Canonical, k) \subseteq RefsAt(old, k) => JoinCallsFor(k) = 0

\* the calls of onJoin with key k, in the order they were made
JoinLogFor(k) == SelectSeq(log, LAMBDA c : c.ev = "join" /\ c.key = k)

\* the first n elements of sequence s
Prefix(s, n) == SubSeq(s, 1, n)

\* C21: onJoin and onLeave are called once for each new or removed meta, so
\* one call may call a callback several times with the same key: a key that
\* the state lacks and that comes with n metas gets n calls of onJoin, the
\* j-th with the record of the first j-1 metas (undefined for the first) and
\* the record of the first j metas; a key gets as many calls of onLeave as
\* metas were removed from it.
C21_OncePerMeta ==
  (PerEvent /\ cb = "events" /\ ~IsThrow(ret)) =>
    /\ \A k \in DOMAIN EventJoins.e \ DOMAIN old.e :
         LET metas == MetasAt(EventJoins, k)
             calls == JoinLogFor(k)
         IN metas # <<>> =>
            /\ Len(calls) = Len(metas)
            /\ \A j \in DOMAIN calls :
                 /\ calls[j].cur = IF j = 1 THEN Undefined
                                   ELSE MapSet(EventJoins.e[k], "metas",
                                               IList(Prefix(metas, j - 1)), calls[j].cur.oid)
                 /\ Get(calls[j].pres, "metas") = IList(Prefix(metas, j))
    /\ \A k \in DOMAIN old.e :
         Len(EventRemaining(k)) < Len(EventAfterJoin(k)) =>
           LeaveCallsFor(k) = Len(EventAfterJoin(k)) - Len(EventRemaining(k))

\* the ways to put the keys of State S in a row
KeyRows(S) ==
  {f \in [1..Cardinality(DOMAIN S.e) -> DOMAIN S.e] :
     \A i, j \in DOMAIN f : f[i] = f[j] => i = j}

\* C22: list(state, chooser) returns a sequence with exactly one element for
\* every key of state, the element being chooser(key, record) for that key;
\* with the default chooser the elements are the records themselves, and the
\* call then does not raise; the State is as it was.
C22_ListOnePerKey ==
  (pc = "returned" /\ op = "list") =>
    /\ state = old
    /\ cb = "presence" => ~IsThrow(ret)
    /\ ~IsThrow(ret) =>
         /\ Len(ret.e) = Cardinality(DOMAIN old.e)
         /\ \E f \in KeyRows(old) :
              \A i \in DOMAIN f :
                /\ ret.e[i] = chooser(cb, f[i], old.e[f[i]])
                /\ cb = "presence" => ret.e[i] = old.e[f[i]] /\ ret.e[i].oid = old.e[f[i]].oid
                /\ cb = "first" =>
                     ret.e[i] = (IF MetasAt(old, f[i]) = <<>> THEN Undefined
                                 ELSE MetasAt(old, f[i])[1])

\* a list with the chooser of the tests over a State of two keys, one of them
\* with two metas
C22_Witness ==
  /\ pc = "returned" /\ op = "list" /\ ~IsThrow(ret) /\ cb = "first"
  /\ Len(ret.e) = 2
  /\ \E k \in DOMAIN old.e : Len(MetasAt(old, k)) = 2
  /\ ret.e[1] # ret.e[2]

\* the top-level fields of the record of key k in State S other than metas
ExtraFields(S, k) == DOMAIN Get(S, k).e \ {"metas"}

\* C23: the extra top-level fields of a record (attached by an earlier
\* onChanged return value) are not touched by join and leave processing:
\* when a call joins metas to a key or removes some of its metas and the key
\* stays, the key's record carries those fields with the values they had.
\* Stated for calls whose callback attaches nothing.
C23_ExtraFieldsKept ==
  (PostApply /\ ~IsThrow(ret) /\ cb \in {"none", "void"}) =>
    \A k \in DOMAIN old.e \cap DeltaKeys :
      (/\ Has(ret, k)
       /\ MetasAt(old, k) # <<>>
       /\ ~Is(Get(ret.e[k], "metas"), Get(old.e[k], "metas"))) =>
        \A f \in ExtraFields(old, k) :
          Has(ret.e[k], f) /\ ret.e[k].e[f] = old.e[k].e[f]

\* C24: syncState with onChanged calls onChanged for exactly the keys whose
\* entry differs between oldState and the snapshot (added, removed, or with
\* other metas), and for no key whose record is the same before and after.
\* Stated for States and snapshots whose records all have metas.
C24_OnChangedOnlyForChanged ==
  (/\ Returned("syncState") /\ cb = "void"
   /\ ProperRecords(old) /\ ProperRecords(Canonical))
  => \A k \in AllKeys :
       /\ ~Is(Get(old, k), Get(Canonical, k)) => CallsFor(k) = 1
       /\ (Is(Get(old, k), Get(Canonical, k)) /\ Is(Get(old, k), Get(ret, k))) =>
            CallsFor(k) = 0

\* C25: in syncDiff every leave is applied when all joins are applied, to
\* what the joins gave: for a key in both joins and leaves the returned
\* metas are the metas the State had followed by the joined ones, less those
\* with a ref of the leave payload; a meta that is joined and left in one
\* delta is not in the result, and a key that the join creates and the
\* leave empties is not in the returned State.
C25_LeavesAfterJoins ==
  Returned("syncDiff") =>
    \A k \in JoinKeys \cap LeaveKeys :
      /\ Is(IList(MetasAt(ret, k)), IList(Remaining(k)))
      /\ Has(ret, k) <=> Remaining(k) # <<>>
      /\ RefsAt(Joined, k) \cap RefsAt(Left, k) \cap RefsAt(ret, k) = {}
      /\ (~Has(old, k) /\ RefsAt(Joined, k) \subseteq RefsAt(Left, k)) => ~Has(ret, k)

\* a delta that joins a meta to a key the State lacks and takes it away
\* again
C25_Witness ==
  /\ Returned("syncDiff")
  /\ \E k \in (JoinKeys \cap LeaveKeys) \ DOMAIN old.e :
       /\ MetasAt(Joined, k) # <<>>
       /\ RefsAt(Joined, k) \subseteq RefsAt(Left, k)
       /\ ~Has(ret, k)

\* every record of S has a List of metas
WellFormed(S) == \A k \in DOMAIN S.e : MetasOk(S.e[k])

\* no two metas of one key of S have the same ref
UniqueRefs(S) == \A k \in DOMAIN S.e : Cardinality(RefsAt(S, k)) = Len(MetasAt(S, k))

\* every record of S has at least one meta
NonEmptyRecords(S) == \A k \in DOMAIN S.e : MetasAt(S, k) # <<>>

\* the metas of key k of the old State whose ref the snapshot has, and the
\* metas of the snapshot whose ref the old State lacks
Retained(k) ==
  SelectSeq(MetasAt(old, k), LAMBDA m : Get(m, "phx_ref") \in RefsAt(Canonical, k))
OnlyInNew(k) ==
  SelectSeq(MetasAt(Canonical, k), LAMBDA m : Get(m, "phx_ref") \notin RefsAt(old, k))

\* C26: for an old State with unique refs within each key and a snapshot N
\* whose records have metas, with unique refs within each key,
\* syncState(old, N) returns a State with exactly the keys of N, for each
\* key exactly the refs of N[k], each once, the metas retained from the old
\* State first in their old order, then the metas only in N in N's order.
C26_SyncStateKeysRefsOrder ==
  (/\ pc = "returned" /\ op = "syncState"
   /\ WellFormed(old) /\ UniqueRefs(old)
   /\ WellFormed(Canonical) /\ NonEmptyRecords(Canonical) /\ UniqueRefs(Canonical))
  => /\ cb # "raise" => ~IsThrow(ret)
     /\ ~IsThrow(ret) =>
          /\ DOMAIN ret.e = DOMAIN Canonical.e
          /\ \A k \in DOMAIN ret.e :
               /\ RefsAt(ret, k) = RefsAt(Canonical, k)
               /\ Cardinality(RefsAt(ret, k)) = Len(MetasAt(ret, k))
               /\ Is(IList(MetasAt(ret, k)), IList(Retained(k) \o OnlyInNew(k)))

\* a syncState that drops a key, and for another key retains a meta of the
\* old State and adds one of the snapshot, in an order other than the
\* snapshot's
C26_Witness ==
  /\ Returned("syncState")
  /\ UniqueRefs(old) /\ WellFormed(old)
  /\ DOMAIN old.e \ DOMAIN Canonical.e # {}
  /\ \E k \in DOMAIN ret.e :
       /\ Retained(k) # <<>> /\ OnlyInNew(k) # <<>>
       /\ ~Is(IList(MetasAt(ret, k)), IList(MetasAt(Canonical, k)))

\* C27: syncState is idempotent in its snapshot: syncState(syncState(S, N), N)
\* is value-equal to syncState(S, N), also when a record of N has no metas.
\* The call that is over is syncState(S, N); the second one is made on the
\* State the caller keeps.
C27_SyncStateIdempotent ==
  (Returned("syncState") /\ cb = "none") =>
    \A ord \in Orders :
      LET again == syncState(Held(ret), payload, "none", ord).ret
      IN ~IsThrow(again) /\ Is(again, ret)

\* what the call that is over returns for the same State and payload when
\* onChanged is omitted
Omitted(ord) ==
  CASE op = "syncState" -> syncState(old, payload, "none", ord).ret
    [] op = "syncDiff" ->
         syncDiff(old, Field(payload, "joins"), Field(payload, "leaves"), "none", ord).ret
    [] OTHER -> sync(old, payload, "none", ord).ret

\* C28: whatever onChanged returns, the State that syncDiff, syncState or
\* sync returns has the keys, and for every key metas value-equal to those,
\* of the State returned for the same inputs with onChanged omitted; what
\* the callback returns changes only top-level fields other than metas, and
\* only of a key of joins or leaves that has a record after the apply.
C28_CallbackCannotChangeMetas ==
  (PostApply /\ ~IsThrow(ret)) =>
    \A ord \in Orders :
      LET plain == Omitted(ord)
      IN /\ ~IsThrow(plain)
         /\ DOMAIN ret.e = DOMAIN plain.e
         /\ \A k \in DOMAIN ret.e :
              /\ Is(Get(ret.e[k], "metas"), Get(plain.e[k], "metas"))
              /\ ret.e[k] # plain.e[k] => k \in DeltaKeys
              /\ \A f \in DOMAIN plain.e[k].e \ DOMAIN ret.e[k].e : f # "metas"

\* a callback returned a record for a key that was removed, which the State
\* did not take, and for another key a record with other fields, which it
\* took
C28_Witness ==
  /\ PostApply /\ ~IsThrow(ret) /\ cb = "old"
  /\ \E i \in DOMAIN log : Truthy(Returns(i)) /\ ~Has(ret, log[i].key)
  /\ \E i \in DOMAIN log :
       /\ Taken(i)
       /\ ExtraFields(ret, log[i].key) # ExtraFields(Omitted(KeyOrder), log[i].key)

\* C29: syncDiff of the library with onJoin and onLeave and syncDiff of the
\* library with onChanged compute the same State: for the same State and
\* delta, with per-event callbacks that return (or none), the first returns
\* a State value-equal to the one the second returns with onChanged omitted
\* or returning nothing, whatever the iteration order of either.
C29_PerEventEqualsPostApply ==
  (pc = "returned" /\ op = "syncDiffPerEvent" /\ cb \in {"none", "events"}) =>
    \A c \in {"none", "void"}, ord \in Orders :
      LET postApply == syncDiff(old, Field(payload, "joins"), Field(payload, "leaves"), c, ord).ret
      IN /\ IsThrow(ret) <=> IsThrow(postApply)
         /\ ~IsThrow(ret) => Is(ret, postApply)

\* a syncDiff with onJoin and onLeave that joined a meta to a key, took one
\* from it and deleted another key
C29_Witness ==
  /\ pc = "returned" /\ op = "syncDiffPerEvent" /\ cb = "events" /\ ~IsThrow(ret)
  /\ \E k \in JoinKeys \cap LeaveKeys :
       /\ Has(old, k) /\ Has(ret, k)
       /\ ~Is(Get(ret, k), Get(old, k))
  /\ \E k \in LeaveKeys \ JoinKeys : Has(old, k) /\ ~Has(ret, k)

\* the joins and the leaves that syncDiff is called with: those of the
\* payload for a diff, those syncState computed for a snapshot
DeltaJoins ==
  IF op = "syncDiff" \/ (op = "sync" /\ DiffShaped(payload))
  THEN Joined ELSE stateDelta(old, payload).joins
DeltaLeaves ==
  IF op = "syncDiff" \/ (op = "sync" /\ DiffShaped(payload))
  THEN Left ELSE stateDelta(old, payload).leaves

\* the sequences in which the keys of set S are iterated
Rows(S) == {KeysIn(S, ord) : ord \in Orders}

\* syncDiff on the State and the callback of the call that is over and the
\* joins J and leaves L, with the keys of joins iterated in the sequence js,
\* those of leaves in the sequence ls and those of changedKeys in the
\* sequence cs
Applied(J, L, js, ls, cs) ==
  LET afterJoins == reduceJoins(old, J, js)
      afterLeaves == reduceLeaves(afterJoins, L, ls)
      after == reduceChanged([state |-> afterLeaves, log |-> <<>>], cs, old, cb)
  IN IF IsThrow(afterLeaves) THEN [ret |-> Throw, log |-> <<>>]
     ELSE IF cb = "none" THEN [ret |-> afterLeaves, log |-> <<>>]
     ELSE [ret |-> after.state, log |-> after.log]

\* the calls of onChanged in a log, as a set of (key, new record, old
\* record) by value
Triples(l) == {<<l[i].key, Val(l[i].new), Val(l[i].old)>> : i \in DOMAIN l}

\* C30: the State syncDiff returns, and the set of (key, new record, old
\* record) triples it passes to onChanged, do not depend on the order in
\* which the keys of joins are iterated nor on the order in which the keys of
\* leaves are iterated (nor on the order of changedKeys).  Stated for calls
\* that return: the call that is over is syncDiff with one order for all
\* three, and every choice of the three sequences gives a State value-equal
\* to the one it returned and the triples it passed.
C30_KeyOrderIrrelevant ==
  (PostApply /\ ~IsThrow(ret)) =>
    LET J == DeltaJoins
        L == DeltaLeaves
    IN \A js \in Rows(DOMAIN J.e), ls \in Rows(DOMAIN L.e),
          cs \in Rows(DOMAIN J.e \cup DOMAIN L.e) :
         LET other == Applied(J, L, js, ls, cs)
         IN /\ ~IsThrow(other.ret)
            /\ Is(other.ret, ret)
            /\ Triples(other.log) = Triples(log)

\* a call whose joins and leaves both have two keys, with a callback that
\* was called for both
C30_Witness ==
  /\ PostApply /\ ~IsThrow(ret) /\ cb = "extra"
  /\ Cardinality(DOMAIN DeltaJoins.e) > 1
  /\ Cardinality(DOMAIN DeltaLeaves.e) > 1
  /\ Cardinality(Triples(log)) > 1
  /\ ~Is(ret, old)

====
